---- MODULE Spec2Model ----
(***************************************************************************)
(* Model of backend/app/services/gltf_converter.py: the colour lookup,     *)
(* the prism extrusion of one footprint and the assembly of a scene from   *)
(* the areas, separators and openings of one apartment.                    *)
(*                                                                         *)
(* Lengths are in tenths of a unit (2.6 is 26) and colour components in    *)
(* hundredths (0.95 is 95), so that every number of the model is an        *)
(* integer.  Vertex indices inside faces are 0-based, as in the code.      *)
(***************************************************************************)
EXTENDS Integers, Sequences, FiniteSets, TLC

VARIABLES
    c_subtype, c_type, c_color, c_pc,                       \* one call of _get_color_for_entity
    coords_in, elevation_in, height_in, color_in, ex_result, ex_pc,  \* one call of _extrude_polygon
    apartment_data, pc, idx, mesh_counter, scene, outcome   \* one call of convert_apartment_to_glb

vars == <<c_subtype, c_type, c_color, c_pc,
          coords_in, elevation_in, height_in, color_in, ex_result, ex_pc,
          apartment_data, pc, idx, mesh_counter, scene, outcome>>

colorVars == <<c_subtype, c_type, c_color, c_pc>>
extrudeVars == <<coords_in, elevation_in, height_in, color_in, ex_result, ex_pc>>
convertVars == <<apartment_data, pc, idx, mesh_counter, scene, outcome>>

(***************************************************************************)
(* Bounds                                                                  *)
(***************************************************************************)
MaxLen == 5      \* longest coordinate list handed to _extrude_polygon, closing point included
MaxElems == 3    \* most elements of one apartment, over the three groups

(***************************************************************************)
(* Colour table and lookup                                                 *)
(***************************************************************************)
ColorKeys == {"BATHROOM", "LIVING_ROOM", "KITCHEN", "ROOM", "BEDROOM", "BALCONY",
              "CORRIDOR", "SHAFT", "DINING", "WALL", "DOOR", "WINDOW",
              "ENTRANCE_DOOR", "DEFAULT"}

color_map ==
    [k \in ColorKeys |->
        CASE k = "BATHROOM"      -> <<70, 90, 100, 100>>
          [] k = "LIVING_ROOM"   -> <<100, 90, 70, 100>>
          [] k = "KITCHEN"       -> <<100, 80, 80, 100>>
          [] k = "ROOM"          -> <<90, 100, 90, 100>>
          [] k = "BEDROOM"       -> <<90, 100, 90, 100>>
          [] k = "BALCONY"       -> <<80, 80, 100, 100>>
          [] k = "CORRIDOR"      -> <<95, 95, 95, 100>>
          [] k = "SHAFT"         -> <<60, 60, 60, 100>>
          [] k = "DINING"        -> <<100, 95, 80, 100>>
          [] k = "WALL"          -> <<50, 50, 50, 100>>
          [] k = "DOOR"          -> <<60, 40, 20, 100>>
          [] k = "WINDOW"        -> <<70, 90, 100, 50>>
          [] k = "ENTRANCE_DOOR" -> <<40, 30, 20, 100>>
          [] k = "DEFAULT"       -> <<80, 80, 80, 100>>]

Range(f) == {f[k] : k \in DOMAIN f}

\* dict.get(key, default)
DictGet(d, key, default) == IF key \in DOMAIN d THEN d[key] ELSE default

\* a plausible slip: the type is looked up before the subtype
Mut_get_color_for_entity(entity_subtype, entity_type) ==
    DictGet(color_map, entity_type,
            DictGet(color_map, entity_subtype, color_map["DEFAULT"]))

_get_color_for_entity(entity_subtype, entity_type) ==
    DictGet(color_map, entity_subtype,
            DictGet(color_map, entity_type, color_map["DEFAULT"]))

(***************************************************************************)
(* Extrusion of one footprint                                              *)
(***************************************************************************)
\* a plausible slip: the closing duplicate is kept
MutDropClosing(coords) == coords

\* a plausible slip: the last point is dropped without the comparison
MutDropAlways(coords) == SubSeq(coords, 1, Len(coords) - 1)

\* lines 61-63: coords[0] == coords[-1] drops the last point (coords non-empty)
DropClosing(coords) ==
    IF coords[1] = coords[Len(coords)]
    THEN SubSeq(coords, 1, Len(coords) - 1)
    ELSE coords

\* line 70-74: the ring at z = elevation
BottomVerts(c, elevation) ==
    [k \in 1..Len(c) |-> <<c[k][1], c[k][2], elevation>>]

\* line 77-81: the ring at z = elevation + height
TopVerts(c, elevation, height) ==
    [k \in 1..Len(c) |-> <<c[k][1], c[k][2], elevation + height>>]

\* lines 90-91: list(range(num_verts)) reversed, 0-based
bottom_face_indices(num_verts) == [i \in 0..(num_verts - 1) |-> num_verts - 1 - i]

\* lines 92-93: for i in range(1, num_verts - 1)
BottomFaces(num_verts) ==
    [i \in 1..(num_verts - 2) |->
        <<0, bottom_face_indices(num_verts)[i + 1], bottom_face_indices(num_verts)[i]>>]

\* a plausible slip: the fan stops one step early
MutTopFaces(num_verts) ==
    [i \in 1..(num_verts - 3) |-> <<num_verts, num_verts + i, num_verts + i + 1>>]

\* lines 96-97: for i in range(1, num_verts - 1)
TopFaces(num_verts) ==
    [i \in 1..(num_verts - 2) |-> <<num_verts, num_verts + i, num_verts + i + 1>>]

\* lines 100-104: two triangles per ring edge i -> next_i, in loop order
SideFaces(num_verts) ==
    [k \in 1..(2 * num_verts) |->
        LET i == (k - 1) \div 2
            next_i == (i + 1) % num_verts
        IN  IF k % 2 = 1
            THEN <<i, next_i, num_verts + i>>
            ELSE <<next_i, num_verts + next_i, num_verts + i>>]

\* line 112: np.tile(color, (len(vertices), 1))
VertexColors(color, n) == [k \in 1..n |-> color]

\* a plausible slip: an exterior without points gives a mesh without vertices
MutExtrudeError(e) ==
    [ok |-> TRUE, vertices |-> << >>, faces |-> << >>, vertex_colors |-> << >>]

\* lines 117-119: the exception is logged and raised again
ExtrudeError(e) == [ok |-> FALSE, error |-> e]

\* Line 109: trimesh.Trimesh(vertices=, faces=) is built with the library's
\* default process=True, which merges the vertices of equal position and
\* re-indexes the faces; faces are not removed (validate is off).  Of the
\* vertices at one position the first stays, at its place in the order
\* (trimesh 4; earlier releases may order the merged rows differently).
\* Every row is referenced by a side face, so none is dropped as unused.

\* the 1-based row that the row k is merged into
FirstAt(vertices, k) ==
    CHOOSE j \in 1..k :
        vertices[j] = vertices[k] /\ \A i \in 1..(j - 1) : vertices[i] /= vertices[k]

\* for each 1-based row, its 0-based index after the merge: the number of
\* rows that stay and come before the row it is merged into
MergeTable(vertices) ==
    LET first == [k \in 1..Len(vertices) |-> FirstAt(vertices, k)]
        kept == {k \in 1..Len(vertices) : first[k] = k}
    IN  [k \in 1..Len(vertices) |-> Cardinality({j \in kept : j < first[k]})]

MergedVertices(vertices, table) ==
    [n \in 1..Cardinality(Range(table)) |->
        vertices[CHOOSE k \in 1..Len(vertices) : table[k] = n - 1]]

MergedFaces(faces, table) ==
    [f \in 1..Len(faces) |-> [j \in 1..3 |-> table[faces[f][j] + 1]]]

\* Lines 112-113: the colour array has one row per row of the local vertices
\* array; the vertex_colors setter takes it only when it has one row per
\* vertex of the mesh and otherwise leaves the mesh without vertex colours.
AssignedColors(colors, mesh_vertices) ==
    IF Len(colors) = Len(mesh_vertices) THEN colors ELSE << >>

\* lines 57-119.  An empty coordinate list fails at coords[0]; a list that is
\* empty after the drop fails at vertices_2d[:, 0]; every other list yields a
\* mesh, whatever its length.
_extrude_polygon(coords, elevation, height, color) ==
    IF Len(coords) = 0
    THEN ExtrudeError("IndexError")
    ELSE LET c == DropClosing(coords)
             num_verts == Len(c)
         IN  IF num_verts = 0
             THEN ExtrudeError("IndexError")
             ELSE LET vertices == BottomVerts(c, elevation)
                                      \o TopVerts(c, elevation, height)
                      faces == BottomFaces(num_verts) \o TopFaces(num_verts)
                                   \o SideFaces(num_verts)
                      table == MergeTable(vertices)
                      mesh_vertices == MergedVertices(vertices, table)
                  IN  [ok |-> TRUE,
                       vertices |-> mesh_vertices,
                       faces |-> MergedFaces(faces, table),
                       vertex_colors |->
                           AssignedColors(VertexColors(color, Len(vertices)),
                                          mesh_vertices)]

(***************************************************************************)
(* Inputs                                                                  *)
(***************************************************************************)
Points == {<<0, 0>>, <<1, 0>>, <<1, 1>>, <<0, 1>>}
\* list(polygon.exterior.coords): the code takes whatever list the exterior
\* holds, of any length, closed or open, and checks nothing about it
CoordLists == UNION {[1..n -> Points] : n \in 0..MaxLen}
Elevations == {0, 1}
Heights == {0, 1, 2}
Colors == {color_map["DEFAULT"], color_map["WINDOW"]}

LookupKeys == ColorKeys \cup {"area", "separator", "opening", "nan", "LOGGIA"}

NoMesh == [ok |-> FALSE, error |-> "not called"]
NoColor == << >>
NoData == [areas |-> << >>, separators |-> << >>, openings |-> << >>]

IdleColor ==
    /\ c_subtype = "DEFAULT" /\ c_type = "DEFAULT" /\ c_color = NoColor /\ c_pc = "idle"
IdleExtrude ==
    /\ coords_in = << >> /\ elevation_in = 0 /\ height_in = 0 /\ color_in = NoColor
    /\ ex_result = NoMesh /\ ex_pc = "idle"
IdleConvert ==
    /\ apartment_data = NoData /\ pc = "idle" /\ idx = 0 /\ mesh_counter = 0
    /\ scene = << >> /\ outcome = "idle"

(***************************************************************************)
(* One call of _get_color_for_entity                                       *)
(***************************************************************************)
InitColor ==
    /\ c_subtype \in LookupKeys
    /\ c_type \in LookupKeys
    /\ c_color = NoColor
    /\ c_pc = "call"
    /\ IdleExtrude
    /\ IdleConvert

GetColor ==
    /\ c_pc = "call"
    /\ c_color' = _get_color_for_entity(c_subtype, c_type)
    /\ c_pc' = "done"
    /\ UNCHANGED <<c_subtype, c_type, extrudeVars, convertVars>>

NextColor == GetColor

SpecColor == InitColor /\ [][NextColor]_vars

(***************************************************************************)
(* One call of _extrude_polygon                                            *)
(***************************************************************************)
InitExtrude ==
    /\ coords_in \in CoordLists
    /\ elevation_in \in Elevations
    /\ height_in \in Heights
    /\ color_in \in Colors
    /\ ex_result = NoMesh
    /\ ex_pc = "call"
    /\ IdleColor
    /\ IdleConvert

Extrude ==
    /\ ex_pc = "call"
    /\ ex_result' = _extrude_polygon(coords_in, elevation_in, height_in, color_in)
    /\ ex_pc' = IF ex_result'.ok THEN "returned" ELSE "raised"
    /\ UNCHANGED <<coords_in, elevation_in, height_in, color_in, colorVars, convertVars>>

NextExtrude == Extrude

SpecExtrude == InitExtrude /\ [][NextExtrude]_vars

(***************************************************************************)
(* Properties of _get_color_for_entity and _extrude_polygon                *)
(***************************************************************************)
Front(s) == SubSeq(s, 1, Len(s) - 1)
IsClosed(s) == Len(s) >= 1 /\ s[1] = s[Len(s)]

\* the coordinate lists a shapely Polygon holds as its exterior: none for the
\* empty polygon, else a ring of at least 4 coordinates whose last repeats the
\* first.  The code relies on the library for this and checks none of it.
IsExterior(coords) == Len(coords) = 0 \/ (Len(coords) >= 4 /\ IsClosed(coords))

\* number of footprint vertices left once a closing duplicate is dropped
Remaining(coords) == IF IsClosed(coords) THEN Len(coords) - 1 ELSE Len(coords)

ExtrudeDone == ex_pc \in {"returned", "raised"}

\* the footprint names each of its vertices once, the closing point aside
DistinctVertices(coords) ==
    \A i, j \in 1..Remaining(coords) : i /= j => coords[i] /= coords[j]

\* positions of the faces whose three indices all lie in the ring lo..hi
FacesWithin(faces, lo, hi) ==
    {k \in 1..Len(faces) : \A j \in 1..3 : faces[k][j] >= lo /\ faces[k][j] <= hi}

\* positions of the faces that contain both a and b
FacesOnEdge(faces, a, b) ==
    {k \in 1..Len(faces) : a \in Range(faces[k]) /\ b \in Range(faces[k])}

\* the directed edges a triangle traverses
DirEdges(t) == {<<t[1], t[2]>>, <<t[2], t[3]>>, <<t[3], t[1]>>}

\* the mesh of ex_result has 2N vertices and 2(N-2) + 2N triangles: N-2 on
\* the bottom ring, N-2 on the top ring and 2N between the rings
CountsFor(N) ==
        /\ ex_result.ok
        /\ Len(ex_result.vertices) = 2 * N
        /\ Len(ex_result.faces) = 2 * (N - 2) + 2 * N
        /\ Cardinality(FacesWithin(ex_result.faces, 0, N - 1)) = N - 2
        /\ Cardinality(FacesWithin(ex_result.faces, N, 2 * N - 1)) = N - 2
        /\ Cardinality((1..Len(ex_result.faces))
                        \ (FacesWithin(ex_result.faces, 0, N - 1)
                             \cup FacesWithin(ex_result.faces, N, 2 * N - 1))) = 2 * N

\* C1 as stated: every footprint with N >= 3 vertices after the closing
\* duplicate is dropped yields 2N vertices and 2(N-2) + 2N triangles: N-2 on
\* the bottom ring, N-2 on the top ring and 2N between the rings.  Read on
\* the exteriors a shapely Polygon holds.
C1_VertexAndFaceCounts ==
    (ExtrudeDone /\ IsExterior(coords_in) /\ Remaining(coords_in) >= 3) =>
        CountsFor(Remaining(coords_in))

\* C1 amended: a footprint of N >= 3 pairwise distinct vertices, extruded by
\* a height other than 0, yields 2N vertices and 2(N-2) + 2N triangles: N-2
\* on the bottom ring, N-2 on the top ring and 2N between the rings.
C1_CountsDistinctVertices ==
    (/\ ExtrudeDone
     /\ Remaining(coords_in) >= 3
     /\ DistinctVertices(coords_in)
     /\ height_in /= 0) => CountsFor(Remaining(coords_in))

C1_Witness ==
    /\ ex_pc = "returned"
    /\ Len(coords_in) = 5 /\ IsClosed(coords_in)
    /\ DistinctVertices(coords_in) /\ height_in /= 0
    /\ Len(ex_result.vertices) = 8 /\ Len(ex_result.faces) = 12

\* C2: for N >= 3 the emitted triangles are closed: every edge {a, b}, a /= b,
\* of some triangle lies in exactly two triangles, and every vertex index
\* lies in a cap triangle of its own ring.  Stated for the exteriors a
\* shapely Polygon holds, of pairwise distinct vertices and a height other
\* than 0, where no vertices are merged.
C2_ClosedMesh ==
    (/\ ExtrudeDone /\ IsExterior(coords_in) /\ Remaining(coords_in) >= 3
     /\ DistinctVertices(coords_in) /\ height_in /= 0) =>
        LET N == Remaining(coords_in)
            faces == ex_result.faces
        IN
        /\ ex_result.ok
        /\ \A a, b \in 0..(2 * N - 1) :
              (a /= b /\ FacesOnEdge(faces, a, b) /= {})
                  => Cardinality(FacesOnEdge(faces, a, b)) = 2
        /\ \A v \in 0..(N - 1) :
              \E k \in FacesWithin(faces, 0, N - 1) : v \in Range(faces[k])
        /\ \A v \in N..(2 * N - 1) :
              \E k \in FacesWithin(faces, N, 2 * N - 1) : v \in Range(faces[k])

\* C3: for N >= 3 the bottom cap runs against the input order: every ring
\* edge i -> (i+1) mod N that a side wall traverses is traversed as
\* (i+1) mod N -> i by a bottom-cap triangle, and by none as i -> (i+1) mod N.
\* Stated for the exteriors a shapely Polygon holds, of pairwise distinct
\* vertices and a height other than 0, where no vertices are merged.
C3_BottomCapReversed ==
    (/\ ExtrudeDone /\ IsExterior(coords_in) /\ Remaining(coords_in) >= 3
     /\ DistinctVertices(coords_in) /\ height_in /= 0) =>
        LET N == Remaining(coords_in)
            faces == ex_result.faces
            cap == FacesWithin(faces, 0, N - 1)
        IN
        /\ ex_result.ok
        /\ \A i \in 0..(N - 1) :
              LET next_i == (i + 1) % N IN
              /\ \E k \in 1..Len(faces) :
                    k \notin cap /\ <<i, next_i>> \in DirEdges(faces[k])
              /\ \E k \in cap : <<next_i, i>> \in DirEdges(faces[k])
              /\ \A k \in cap : <<i, next_i>> \notin DirEdges(faces[k])

ShortListReturnsMesh ==
    (ExtrudeDone /\ Remaining(coords_in) \in {1, 2}) =>
        /\ ex_pc = "returned" /\ ex_result.ok
        /\ Len(ex_result.faces) = 2 * Remaining(coords_in)

C9_ColorFallbackChain ==
    c_pc = "done" =>
        /\ Len(c_color) = 4
        /\ \A j \in 1..4 : c_color[j] \in 0..100
        /\ c_subtype \in ColorKeys => c_color = color_map[c_subtype]
        /\ (c_subtype \notin ColorKeys /\ c_type \in ColorKeys)
              => c_color = color_map[c_type]
        /\ (c_subtype \notin ColorKeys /\ c_type \notin ColorKeys)
              => c_color = <<80, 80, 80, 100>>
        /\ c_subtype \in {"BEDROOM", "ROOM"} => c_color = <<90, 100, 90, 100>>

C9_Witness ==
    /\ c_pc = "done"
    /\ c_subtype = "LOGGIA" /\ c_type = "WALL"
    /\ c_color = <<50, 50, 50, 100>>

\* C10 as stated: a footprint whose last point equals its first gives the
\* same result as the footprint without that last point (read here on the
\* footprints that keep at least 3 vertices without it).
C10_ClosingDuplicateAlways ==
    (ExtrudeDone /\ IsClosed(coords_in) /\ Remaining(Front(coords_in)) >= 3) =>
        ex_result = _extrude_polygon(Front(coords_in), elevation_in, height_in, color_in)

\* C10 amended: a footprint whose last point equals its first gives the same
\* result as the footprint without that last point, provided the footprint
\* without it does not again end on its first point.
C10_ClosingDuplicateOnce ==
    (ExtrudeDone /\ IsClosed(coords_in) /\ ~IsClosed(Front(coords_in))) =>
        ex_result = _extrude_polygon(Front(coords_in), elevation_in, height_in, color_in)

C10_Witness ==
    /\ ex_pc = "returned"
    /\ Len(coords_in) = 4 /\ IsClosed(coords_in) /\ ~IsClosed(Front(coords_in))
    /\ Len(ex_result.vertices) = 6
    /\ ex_result.vertices[4] = <<coords_in[1][1], coords_in[1][2], elevation_in + height_in>>

(***************************************************************************)
(* One call of convert_apartment_to_glb                                    *)
(***************************************************************************)
Missing == [kind |-> "missing", value |-> 0]     \* the element has no 'area_id' key
PyNone == [kind |-> "None", value |-> 0]         \* 'area_id' is None
PyFloat(n) == [kind |-> "float", value |-> n]    \* 'area_id' is float(n)

\* str() of an area_id that is present: None, or a whole float such as 7.0
PyStr(v) == IF v.kind = "None" THEN "None" ELSE ToString(v.value) \o ".0"

RoomCoords == <<<<0, 0>>, <<40, 0>>, <<40, 30>>, <<0, 30>>, <<0, 0>>>>
DoorCoords == <<<<10, 0>>, <<12, 0>>, <<12, 1>>, <<10, 1>>, <<10, 0>>>>
WallCoords == <<<<0, 0>>, <<40, 0>>, <<40, 2>>, <<0, 0>>>>

\* an element as the data store builds it (csv_extractor lines 53-64): all
\* ten keys are set, and 'coordinates' repeats the exterior of a Polygon
Element(gtype, coords, etype, subtype, elevation, height, zoning, roomtype, area_id, unit_id) ==
    [entity_type |-> etype, entity_subtype |-> subtype,
     geometry |-> [type |-> gtype, coords |-> coords],
     coordinates |-> IF gtype = "Polygon" THEN coords ELSE << >>,
     elevation |-> elevation, height |-> height,
     zoning |-> zoning, roomtype |-> roomtype,
     area_id |-> area_id, unit_id |-> unit_id]

RoomElem == Element("Polygon", RoomCoords, "area", "ROOM", 0, 26,
                    "Zone1", "Bedroom", PyFloat(7), PyFloat(3))
DoorElem == Element("Polygon", DoorCoords, "opening", "DOOR", 0, 20,
                    "nan", "nan", PyNone, PyNone)
WallElem == Element("Polygon", WallCoords, "separator", "WALL", 0, 26,
                    "nan", "nan", PyNone, PyFloat(3))
EmptyElem == Element("Polygon", << >>, "area", "BEDROOM", 0, 26,
                     "Zone1", "Bedroom", PyFloat(7), PyFloat(3))
LineElem == Element("LineString", << >>, "separator", "WALL", 0, 26,
                    "nan", "nan", PyNone, PyNone)

\* an element built by hand, with the keys the loops index and no others
OddElem ==
    [entity_type |-> "feature", entity_subtype |-> "LOGGIA_1",
     geometry |-> [type |-> "Polygon", coords |-> WallCoords],
     elevation |-> 1, height |-> 10, area_id |-> Missing]

ElemPool == {RoomElem, DoorElem, WallElem, EmptyElem, LineElem, OddElem}
ElemLists == UNION {[1..n -> ElemPool] : n \in 0..MaxElems}

\* lines 149-159: each field is dict.get of the element's key, with '' for a
\* missing roomtype or zoning, None for a missing area_id or unit_id and []
\* for missing coordinates
Metadata(e) ==
    [entity_type |-> e.entity_type, entity_subtype |-> e.entity_subtype,
     roomtype |-> DictGet(e, "roomtype", ""),
     zoning |-> DictGet(e, "zoning", ""),
     elevation |-> e.elevation, height |-> e.height,
     area_id |-> IF e.area_id.kind = "missing" THEN PyNone ELSE e.area_id,
     unit_id |-> DictGet(e, "unit_id", PyNone),
     coordinates |-> DictGet(e, "coordinates", << >>)]

\* a plausible slip: the position in the list is left out of the name
MutAreaName(i, area, counter) ==
    "area_" \o area.entity_subtype \o "_"
        \o (IF area.area_id.kind = "missing" THEN ToString(counter) ELSE PyStr(area.area_id))

\* line 162
AreaName(i, area, counter) ==
    "area_" \o ToString(i) \o "_" \o area.entity_subtype \o "_"
        \o (IF area.area_id.kind = "missing" THEN ToString(counter) ELSE PyStr(area.area_id))

\* line 193
SeparatorName(i, separator, counter) ==
    "separator_" \o ToString(i) \o "_" \o separator.entity_subtype \o "_" \o ToString(counter)

\* line 224
OpeningName(i, opening, counter) ==
    "opening_" \o ToString(i) \o "_" \o opening.entity_subtype \o "_" \o ToString(counter)

\* scene.add_geometry(mesh, node_name=mesh_name, geom_name=mesh_name)
Node(mesh_name, mesh, e) ==
    [name |-> mesh_name, geom_name |-> mesh_name, mesh |-> mesh, metadata |-> Metadata(e)]

\* a plausible slip: the new node is put in front of the scene
MutLoopBody(e, mesh_name) ==
    IF e.geometry.type /= "Polygon"
    THEN /\ idx' = idx + 1
         /\ UNCHANGED <<pc, mesh_counter, scene, outcome>>
    ELSE LET color == _get_color_for_entity(e.entity_subtype, e.entity_type)
             mesh == _extrude_polygon(e.geometry.coords, e.elevation, e.height, color)
         IN  IF ~mesh.ok
             THEN /\ pc' = "done"
                  /\ outcome' = mesh.error
                  /\ UNCHANGED <<idx, mesh_counter, scene>>
             ELSE /\ scene' = <<Node(mesh_name, mesh, e)>> \o scene
                  /\ mesh_counter' = mesh_counter + 1
                  /\ idx' = idx + 1
                  /\ UNCHANGED <<pc, outcome>>

\* One pass of a loop body on element e: a geometry that is no Polygon is
\* skipped, an extrusion that raises ends the call through the outer
\* except/raise, and a mesh is added under mesh_name.
LoopBody(e, mesh_name) ==
    IF e.geometry.type /= "Polygon"
    THEN /\ idx' = idx + 1
         /\ UNCHANGED <<pc, mesh_counter, scene, outcome>>
    ELSE LET color == _get_color_for_entity(e.entity_subtype, e.entity_type)
             mesh == _extrude_polygon(e.geometry.coords, e.elevation, e.height, color)
         IN  IF ~mesh.ok
             THEN /\ pc' = "done"
                  /\ outcome' = mesh.error
                  /\ UNCHANGED <<idx, mesh_counter, scene>>
             ELSE /\ scene' = Append(scene, Node(mesh_name, mesh, e))
                  /\ mesh_counter' = mesh_counter + 1
                  /\ idx' = idx + 1
                  /\ UNCHANGED <<pc, outcome>>

InitConvert ==
    /\ \E s \in ElemLists : \E i \in 0..Len(s) : \E j \in i..Len(s) :
          apartment_data = [areas |-> SubSeq(s, 1, i),
                            separators |-> SubSeq(s, i + 1, j),
                            openings |-> SubSeq(s, j + 1, Len(s))]
    /\ pc = "areas"
    /\ idx = 0
    /\ mesh_counter = 0
    /\ scene = << >>
    /\ outcome = "running"
    /\ IdleColor
    /\ IdleExtrude

\* lines 136-164
ProcessArea ==
    /\ pc = "areas"
    /\ idx < Len(apartment_data.areas)
    /\ LET area == apartment_data.areas[idx + 1]
       IN  LoopBody(area, AreaName(idx, area, mesh_counter))
    /\ UNCHANGED <<apartment_data, colorVars, extrudeVars>>

\* lines 167-195
ProcessSeparator ==
    /\ pc = "separators"
    /\ idx < Len(apartment_data.separators)
    /\ LET separator == apartment_data.separators[idx + 1]
       IN  LoopBody(separator, SeparatorName(idx, separator, mesh_counter))
    /\ UNCHANGED <<apartment_data, colorVars, extrudeVars>>

\* lines 198-226
ProcessOpening ==
    /\ pc = "openings"
    /\ idx < Len(apartment_data.openings)
    /\ LET opening == apartment_data.openings[idx + 1]
       IN  LoopBody(opening, OpeningName(idx, opening, mesh_counter))
    /\ UNCHANGED <<apartment_data, colorVars, extrudeVars>>

\* a for loop runs out and the next one starts
EndOfLoop ==
    /\ pc \in {"areas", "separators", "openings"}
    /\ idx = Len(apartment_data[pc])
    /\ pc' = CASE pc = "areas" -> "separators"
               [] pc = "separators" -> "openings"
               [] pc = "openings" -> "check"
    /\ idx' = 0
    /\ UNCHANGED <<apartment_data, mesh_counter, scene, outcome, colorVars, extrudeVars>>

\* lines 228-239: the emptiness check, then the export
CheckAndExport ==
    /\ pc = "check"
    /\ outcome' = IF mesh_counter = 0 THEN "ValueError" ELSE "glb"
    /\ pc' = "done"
    /\ UNCHANGED <<apartment_data, idx, mesh_counter, scene, colorVars, extrudeVars>>

Next ==
    \/ ProcessArea
    \/ ProcessSeparator
    \/ ProcessOpening
    \/ EndOfLoop
    \/ CheckAndExport

Spec == InitConvert /\ [][Next]_vars

(***************************************************************************)
(* Properties of convert_apartment_to_glb                                  *)
(***************************************************************************)
AllElements ==
    apartment_data.areas \o apartment_data.separators \o apartment_data.openings

\* an element the loops neither skip nor fail on: a Polygon with an exterior ring
CanExtrude(e) == e.geometry.type = "Polygon" /\ Len(e.geometry.coords) > 0

Extrudable == {k \in 1..Len(AllElements) : CanExtrude(AllElements[k])}

\* C4: when at least one element can be extruded the conversion completes
\* with one node per such element; an element whose extrusion raises does
\* not keep the others from being exported.
C4_PerElementIsolation ==
    (pc = "done" /\ Extrudable /= {}) =>
        (outcome = "glb" /\ Len(scene) = Cardinality(Extrudable))

ExampleData ==
    [areas |-> <<RoomElem>>, separators |-> << >>, openings |-> <<DoorElem>>]

\* C6 as stated: the room and door example gives 2 nodes of 16 triangles,
\* the first in the ROOM colour and the second in the DOOR colour.
C6_ExampleSixteen ==
    (pc = "done" /\ apartment_data = ExampleData) =>
        /\ outcome = "glb"
        /\ Len(scene) = 2
        /\ Len(scene[1].mesh.faces) = 16
        /\ Len(scene[2].mesh.faces) = 16
        /\ Range(scene[1].mesh.vertex_colors) = {<<90, 100, 90, 100>>}
        /\ Range(scene[2].mesh.vertex_colors) = {<<60, 40, 20, 100>>}

\* C6 amended: the room and door example gives 2 nodes of 12 triangles
\* (2(4-2) + 2*4), the first in the ROOM colour and the second in the DOOR
\* colour.
C6_ExampleTwelve ==
    (pc = "done" /\ apartment_data = ExampleData) =>
        /\ outcome = "glb"
        /\ Len(scene) = 2
        /\ Len(scene[1].mesh.faces) = 12
        /\ Len(scene[2].mesh.faces) = 12
        /\ Range(scene[1].mesh.vertex_colors) = {<<90, 100, 90, 100>>}
        /\ Range(scene[2].mesh.vertex_colors) = {<<60, 40, 20, 100>>}

C6_Witness ==
    /\ pc = "done" /\ outcome = "glb"
    /\ apartment_data = ExampleData
    /\ Len(scene) = 2
    /\ Len(scene[1].mesh.vertices) = 8

\* C7: the call fails with the empty-scene error exactly when no node was
\* added over the three groups, and reaches the export whenever a node was
\* added.
C7_EmptySceneExactly ==
    pc = "done" =>
        /\ (outcome = "ValueError") <=> (Len(scene) = 0)
        /\ Len(scene) > 0 => outcome = "glb"

\* C8: no two nodes of the scene have the same name.
C8_UniqueNames ==
    \A i, j \in 1..Len(scene) : i /= j => scene[i].name /= scene[j].name

C8_Witness ==
    /\ pc = "done"
    /\ Len(scene) = 3
    /\ \E i, j \in 1..3 :
          /\ i /= j
          /\ scene[i].metadata.entity_subtype = scene[j].metadata.entity_subtype
          /\ scene[i].metadata.area_id = scene[j].metadata.area_id
          /\ scene[i].metadata.area_id.kind = "float"
    /\ \E i \in 1..3 : scene[i].metadata.area_id.kind = "None"

\* the name the loops give to the element at position p of AllElements when
\* it is added as node number counter (0-based)
NameAt(p, counter) ==
    LET na == Len(apartment_data.areas)
        ns == Len(apartment_data.separators)
    IN  IF p <= na
        THEN AreaName(p - 1, AllElements[p], counter)
        ELSE IF p <= na + ns
             THEN SeparatorName(p - na - 1, AllElements[p], counter)
             ELSE OpeningName(p - na - ns - 1, AllElements[p], counter)

\* the nodes of sc stem from elements at increasing positions of AllElements,
\* i.e. areas first, then separators, then openings, each in list order
InInputOrder(sc) ==
    \E f \in [1..Len(sc) -> 1..Len(AllElements)] :
        /\ \A k \in 1..(Len(sc) - 1) : f[k] < f[k + 1]
        /\ \A k \in 1..Len(sc) :
              /\ sc[k].name = NameAt(f[k], k - 1)
              /\ sc[k].metadata = Metadata(AllElements[f[k]])

\* C11: nodes are appended in the order areas, separators, openings and, in
\* one group, in the order of the input list; every step keeps the nodes
\* already in the scene at their places.
C11_AppendOrder ==
    [][/\ InInputOrder(scene')
       /\ Len(scene') >= Len(scene)
       /\ SubSeq(scene', 1, Len(scene)) = scene]_vars

C11_Witness ==
    /\ pc = "done" /\ outcome = "glb"
    /\ Len(apartment_data.areas) = 1
    /\ Len(apartment_data.separators) = 1
    /\ Len(apartment_data.openings) = 1
    /\ Len(scene) = 3
    /\ scene[1].name = "area_0_ROOM_7.0"
    /\ scene[2].name = "separator_0_WALL_1"
    /\ scene[3].name = "opening_0_DOOR_2"

====
